---- MODULE Spec2Model ----
(***************************************************************************)
(* Model of the Wikipedia Special:AllPages scraper                         *)
(* (src/get_article_names.py, src/funcs.py).                               *)
(*                                                                         *)
(* Strings are sequences of ASCII codes, so that ordering (SQLite's BINARY *)
(* collation) and URL encoding (quote_plus) are computed, not assumed.     *)
(* An optional value is a sequence of length 0 (None) or 1.                *)
(***************************************************************************)
EXTENDS Integers, Sequences, FiniteSets, TLC

(* ------------------------------ bounds --------------------------------- *)

\* number of titles the remote listing holds (a prefix of Catalogue)
ListingLen == 5
\* number of titles the remote service puts on one page
PageSize == 2
\* number of process invocations (runs of main) explored
MaxRuns == 3
\* largest --max-pages value explored
MaxPagesArg == 2
\* cap on the fetches of one run (the loop itself is unbounded without --max-pages)
MaxFetches == 3
\* largest number of "next"-labelled links, and of navigation links, on a page
MaxLinks == 2

\* the lines of the summary main prints
SummaryLines == 3

(* ------------------------------ strings -------------------------------- *)

None == <<>>
Some(x) == <<x>>

Range(s) == {s[i] : i \in 1..Len(s)}

RECURSIVE Concat(_)
\* the concatenation of a sequence of strings
Concat(ss) == IF ss = <<>> THEN <<>> ELSE Head(ss) \o Concat(Tail(ss))

RECURSIVE LexLess(_, _)
\* a < b byte-wise (memcmp, then length): SQLite's BINARY collation
LexLess(a, b) ==
    IF b = <<>> THEN FALSE
    ELSE IF a = <<>> THEN TRUE
    ELSE IF a[1] < b[1] THEN TRUE
    ELSE IF a[1] > b[1] THEN FALSE
    ELSE LexLess(Tail(a), Tail(b))

\* the titles the remote wiki can hold, in lexicographic order:
\* "A", "A B", "A+", "B", "B&A", "C"
Catalogue ==
    << <<65>>, <<65, 32, 66>>, <<65, 43>>, <<66>>, <<66, 38, 65>>, <<67>> >>

\* the remote listing: stable and lexicographically ordered
Listing == SubSeq(Catalogue, 1, ListingLen)

(* --------------------------- URLs and encoding -------------------------- *)

\* ALWAYS_SAFE of urllib.parse: letters, digits and "_.-~"
IsSafe(c) == c \in (48..57) \cup (65..90) \cup (97..122) \cup {45, 46, 95, 126}

\* upper-case hexadecimal digit of n in 0..15
Hex(n) == IF n < 10 THEN 48 + n ELSE 55 + n

\* urllib.parse.quote_plus on one ASCII character: space -> "+", unsafe -> %XX
QuoteChar(c) ==
    IF c = 32 THEN <<43>>
    ELSE IF IsSafe(c) THEN <<c>>
    ELSE <<37, Hex(c \div 16), Hex(c % 16)>>

\* urllib.parse.quote_plus
quote_plus(s) == Concat([i \in 1..Len(s) |-> QuoteChar(s[i])])

\* "https://en.wikipedia.org/w/index.php?title=Special:AllPages&from=" + q,
\* kept as the page it addresses and the raw text after "from="
AllPagesUrl(q) == [page |-> "Special:AllPages", from |-> q]

\* any URL that does not contain "Special:AllPages"
OtherUrl == [page |-> "other", from |-> <<>>]

\* the default start of scrape_all_articles: ...&from=%21
DefaultStartUrl == AllPagesUrl(<<37, 50, 49>>)

\* the start URL main builds for --start-from: the name is pasted in unencoded
ExplicitStartUrl(name) == AllPagesUrl(name)

\* WikipediaScraper.create_resume_url
create_resume_url(last_title) == AllPagesUrl(quote_plus(last_title))

(* --------------------------- the remote service ------------------------- *)

IsHex(c) == c \in (48..57) \cup (65..70) \cup (97..102)

HexVal(c) == IF c <= 57 THEN c - 48 ELSE IF c <= 70 THEN c - 55 ELSE c - 87

RECURSIVE QueryValue(_)
\* the value of the last query parameter as the service splits it: it ends at
\* the first "&" or "#"
QueryValue(raw) ==
    IF raw = <<>> \/ raw[1] \in {38, 35} THEN <<>>
    ELSE <<raw[1]>> \o QueryValue(Tail(raw))

RECURSIVE UnquotePlus(_)
\* form decoding of a query value by the service: "+" -> space, %XX -> byte
UnquotePlus(s) ==
    IF s = <<>> THEN <<>>
    ELSE IF s[1] = 43 THEN <<32>> \o UnquotePlus(Tail(s))
    ELSE IF s[1] = 37 /\ Len(s) >= 3 /\ IsHex(s[2]) /\ IsHex(s[3])
         THEN <<16 * HexVal(s[2]) + HexVal(s[3])>> \o UnquotePlus(SubSeq(s, 4, Len(s)))
    ELSE <<s[1]>> \o UnquotePlus(Tail(s))

\* the title the service starts the listing from, for a requested URL
ServerFrom(url) == UnquotePlus(QueryValue(url.from))

\* the titles of the listing that are >= from, in order
Remaining(from) == SelectSeq(Listing, LAMBDA t : ~LexLess(t, from))

Prefix(s, n) == SubSeq(s, 1, IF n < Len(s) THEN n ELSE Len(s))

\* the titles on the page the service shows for a URL
PageTitles(url) ==
    IF url.page = "Special:AllPages" THEN Prefix(Remaining(ServerFrom(url)), PageSize)
    ELSE <<>>

\* the "Next page" link of that page, when titles remain after it
PageNext(url) ==
    IF url.page = "Special:AllPages" /\ Len(Remaining(ServerFrom(url))) > PageSize
    THEN Some(AllPagesUrl(quote_plus(Remaining(ServerFrom(url))[PageSize + 1])))
    ELSE None

\* an <a> of the listing container: its title attribute and whether its href
\* starts with /wiki/
ArticleLink(t) == [title |-> Some(t), wiki |-> TRUE]

\* the parsed page (soup) of a well-formed listing page:
\*   body     - the links of div.mw-allpages-body, None when the div is missing
\*   textNext - the hrefs of the <a> whose string contains "next"
\*   nav      - the links of div.mw-allpages-nav, None when the div is missing
FaithfulPage(url) ==
    LET titles == PageTitles(url)
        nxt    == PageNext(url)
        prev   == IF url.page = "Special:AllPages"
                     /\ Len(Remaining(ServerFrom(url))) < Len(Listing)
                  THEN <<[next |-> FALSE, href |-> Some(AllPagesUrl(<<>>))]>>
                  ELSE <<>>
    IN  [body     |-> IF titles = <<>> THEN None
                      ELSE Some([i \in 1..Len(titles) |-> ArticleLink(titles[i])]),
         textNext |-> IF nxt = None THEN <<>> ELSE <<[href |-> nxt]>>,
         nav      |-> IF url.page = "Special:AllPages"
                      THEN Some(prev \o (IF nxt = None THEN <<>>
                                         ELSE <<[next |-> TRUE, href |-> nxt]>>))
                      ELSE None]

\* the ways a served page can differ from the well-formed one
PageVariants == {"ok", "nobody", "nonext", "loopnext", "dup"}

\* the parsed page the driver gets for a URL
ServedPage(url, variant) ==
    LET p == FaithfulPage(url)
        self == [href |-> Some(url)]
    IN  CASE variant = "ok" -> p
          [] variant = "nobody" -> [p EXCEPT !.body = None]
          [] variant = "nonext" -> [p EXCEPT !.textNext = <<>>, !.nav = None]
          [] variant = "loopnext" ->
                [p EXCEPT !.textNext = <<self>>,
                          !.nav = Some(<<[next |-> TRUE, href |-> Some(url)]>>)]
          [] variant = "dup" ->
                IF p.body = None THEN p
                ELSE [p EXCEPT !.body = Some(<<p.body[1][1]>> \o p.body[1])]

\* the hrefs a link of a served page can have: none, a URL that is not a
\* listing URL, and two listing URLs
Hrefs == {None, Some(OtherUrl), Some(AllPagesUrl(<<66>>)), Some(AllPagesUrl(<<67>>))}

\* the <a> elements whose string contains "next"
TextLinks == {[href |-> h] : h \in Hrefs}

\* the <a> elements of div.mw-allpages-nav, with or without "next" in their text
NavLinks == {[next |-> b, href |-> h] : b \in BOOLEAN, h \in Hrefs}

SeqsUpTo(S, n) == UNION {[1..k -> S] : k \in 0..n}

\* served pages with one article link and any links labelled "next" and any
\* navigation region
LinkPages ==
    {[body |-> Some(<<ArticleLink(Catalogue[1])>>), textNext |-> t, nav |-> n] :
        t \in SeqsUpTo(TextLinks, MaxLinks),
        n \in {None} \cup {Some(q) : q \in SeqsUpTo(NavLinks, MaxLinks)}}

(* --------------------------- the page translator ------------------------ *)

\* Python truthiness of an optional string
Truthy(opt) == opt # None /\ opt[1] # <<>>

\* WikipediaScraper._extract_articles_from_page: the titles of the links of
\* the listing container that carry a title and an href starting with /wiki/
_extract_articles_from_page(soup) ==
    IF soup.body = None THEN <<>>
    ELSE LET ok == SelectSeq(soup.body[1], LAMBDA l : Truthy(l.title) /\ l.wiki)
         IN  [i \in 1..Len(ok) |-> ok[i].title[1]]

\* the href of the first link of a sequence, else None
FirstHref(links) == IF links = <<>> THEN None ELSE links[1].href

_find_next_page_url_NavFirst(soup) ==
    LET byNav == IF soup.nav = None THEN None
                 ELSE FirstHref(SelectSeq(soup.nav[1], LAMBDA l : l.next /\ l.href # None))
    IN  IF byNav # None THEN byNav
        ELSE FirstHref(SelectSeq(soup.textNext,
                 LAMBDA l : l.href # None /\ l.href[1].page = "Special:AllPages"))

\* WikipediaScraper._find_next_page_url: the first "next"-labelled link whose
\* href contains Special:AllPages, else the first "next" link of the
\* navigation div that has an href, else None
_find_next_page_url(soup) ==
    LET byText == FirstHref(SelectSeq(soup.textNext,
                      LAMBDA l : l.href # None /\ l.href[1].page = "Special:AllPages"))
    IN  IF byText # None THEN byText
        ELSE IF soup.nav = None THEN None
        ELSE FirstHref(SelectSeq(soup.nav[1], LAMBDA l : l.next /\ l.href # None))

(* ------------------------------ the store ------------------------------- *)

RECURSIVE InsertAll(_, _)
\* INSERT without the conflict clause and without the UNIQUE constraint
InsertAll(rows, titles) ==
    IF titles = <<>> THEN rows
    ELSE InsertAll(Append(rows, Head(titles)), Tail(titles))

RECURSIVE InsertOrIgnore(_, _)
\* executemany("INSERT OR IGNORE INTO articles (title) VALUES (?)") on a table
\* whose title column is UNIQUE: a row per title not yet present
InsertOrIgnore(rows, titles) ==
    IF titles = <<>> THEN rows
    ELSE InsertOrIgnore(IF Head(titles) \in Range(rows) THEN rows
                        ELSE Append(rows, Head(titles)),
                        Tail(titles))

\* SELECT COUNT(*) FROM articles; 0 when the read raises sqlite3.Error
get_total_articles_count(rows, readOk) == IF readOk THEN Len(rows) ELSE 0

\* SELECT title FROM articles ORDER BY title DESC LIMIT 1; None when the table
\* is empty or the read raises sqlite3.Error
get_last_article_title(rows, readOk) ==
    IF readOk /\ rows # <<>>
    THEN Some(CHOOSE t \in Range(rows) : \A u \in Range(rows) : ~LexLess(t, u))
    ELSE None

(* --------------------------- the resume planner ------------------------- *)

\* the names tried as --start-from: "", "B", "C" ("C" lies past the listing) and
\* "B&A" (a title with a reserved character)
ExplicitNames == {<<>>, <<66>>, <<67>>, <<66, 38, 65>>}

\* the command lines: --start-from NAME, --resume, --max-pages N
ArgSets ==
    [start_from : {None} \cup {Some(n) : n \in ExplicitNames},
     resume     : BOOLEAN,
     max_pages  : {None} \cup {Some(n) : n \in 0..MaxPagesArg}]

\* the lines typed at "Continue scraping from where we left off? (y/n)": "y",
\* "Y", "n", "N" and " y"
Answers == {<<121>>, <<89>>, <<110>>, <<78>>, <<32, 121>>}

\* str.lower(), on ASCII
lower(line) == [i \in 1..Len(line) |-> IF line[i] \in 65..90 THEN line[i] + 32 ELSE line[i]]

\* response = input(...).lower(), as main's two tests see it: 'y', 'n', or
\* neither of them
Response(line) ==
    IF lower(line) = <<121>> THEN "y"
    ELSE IF lower(line) = <<110>> THEN "n"
    ELSE "other"

\* the values of response
Responses == {Response(line) : line \in Answers}

\* input() raising instead of returning an answer: Ctrl+C, or end of input
PromptRaises == {"KeyboardInterrupt", "EOFError"}

\* what the prompt can come back with
PromptOutcomes == Responses \cup PromptRaises

\* how far main gets before it plans: the scraper is constructed and the store
\* set up ("ok"), _setup_database raises "Failed to setup database" ("error"),
\* or Ctrl+C arrives on the way ("interrupt")
SetupOutcomes == {"ok", "error", "interrupt"}

\* the resume URL main builds from the store's last title, None when there is none
ResumeStart(rows, titleOk) ==
    LET last_title == get_last_article_title(rows, titleOk)
    IN  IF Truthy(last_title) THEN Some(create_resume_url(last_title[1])) ELSE None

\* the planner's result: the start URL (None: from the beginning), whether the
\* run was cancelled, and what it consumed on the way: the count it read, the
\* prompt's answer ("" when it did not ask, the exception's name when input()
\* raised) and whether a read it relied on raised sqlite3.Error
Planned(a, count, asked, start, cancel, readsOk) ==
    [args |-> a, existing_count |-> count, response |-> asked,
     start_url |-> start, cancelled |-> cancel, reads_ok |-> readsOk]

main_plan_ResumeFirst(a, rows, countOk, titleOk, response) ==
    LET existing_count == get_total_articles_count(rows, countOk)
        countRead == countOk \/ rows = <<>>
    IN  IF a.resume /\ existing_count > 0
        THEN Planned(a, existing_count, "", ResumeStart(rows, titleOk), FALSE,
                     countRead /\ titleOk)
        ELSE IF Truthy(a.start_from)
        THEN Planned(a, existing_count, "", Some(ExplicitStartUrl(a.start_from[1])),
                     FALSE, countRead)
        ELSE IF existing_count > 0 /\ response \in PromptRaises
        THEN Planned(a, existing_count, response, None, FALSE, countRead)
        ELSE IF existing_count > 0 /\ response = "y"
        THEN Planned(a, existing_count, response, ResumeStart(rows, titleOk), FALSE,
                     countRead /\ titleOk)
        ELSE IF existing_count > 0
        THEN Planned(a, existing_count, response, None, response # "n", countRead)
        ELSE Planned(a, existing_count, "", None, FALSE, countRead)

main_plan_NoPrompt(a, rows, countOk, titleOk, response) ==
    LET existing_count == get_total_articles_count(rows, countOk)
        countRead == countOk \/ rows = <<>>
    IN  IF Truthy(a.start_from)
        THEN Planned(a, existing_count, "", Some(ExplicitStartUrl(a.start_from[1])),
                     FALSE, countRead)
        ELSE IF existing_count > 0
        THEN Planned(a, existing_count, IF a.resume THEN "" ELSE response,
                     ResumeStart(rows, titleOk), FALSE, countRead /\ titleOk)
        ELSE Planned(a, existing_count, "", None, FALSE, countRead)

\* main, "Determine starting URL" (the count is read first)
main_plan(a, rows, countOk, titleOk, response) ==
    LET existing_count == get_total_articles_count(rows, countOk)
        countRead == countOk \/ rows = <<>>
    IN  IF Truthy(a.start_from)
        THEN Planned(a, existing_count, "", Some(ExplicitStartUrl(a.start_from[1])),
                     FALSE, countRead)
        ELSE IF a.resume /\ existing_count > 0
        THEN Planned(a, existing_count, "", ResumeStart(rows, titleOk), FALSE,
                     countRead /\ titleOk)
        ELSE IF existing_count > 0 /\ response \in PromptRaises
        THEN Planned(a, existing_count, response, None, FALSE, countRead)
        ELSE IF existing_count > 0 /\ response = "y"
        THEN Planned(a, existing_count, response, ResumeStart(rows, titleOk), FALSE,
                     countRead /\ titleOk)
        ELSE IF existing_count > 0
        THEN Planned(a, existing_count, response, None, response # "n", countRead)
        ELSE Planned(a, existing_count, "", None, FALSE, countRead)

(* ------------------------------- the state ------------------------------ *)

VARIABLES
    db,             \* the rows of table articles (titles, in insertion order)
    pc,             \* where the process is: idle (not running), loop, extract,
                    \* save, findnext, finish, summary
    run,            \* number of invocations of main so far
    max_pages,      \* scrape_all_articles: max_pages (None or a number)
    current_url,    \* scrape_all_articles: current_url, or None
    pages_scraped,  \* scrape_all_articles: pages_scraped
    total_articles, \* scrape_all_articles: total_articles
    soup,           \* the page fetched in this iteration, or None
    articles,       \* the titles extracted from it
    stop_log,       \* the message logged when the loop was left
    outcome,        \* how the last invocation ended
    printed,        \* the summary lines the last invocation has printed
    planned,        \* history: the planner's call (None or the plan), kept until the
                    \* crawl's first step
    fetches,        \* history: session.get calls of this invocation
    committed,      \* history: titles of the batches whose commit succeeded
    write_failed,   \* history: a commit of this invocation raised sqlite3.Error
    all_full,       \* history: every page fetched by this invocation had titles
                    \* and a next-page link
    faithful,       \* history: every page served so far was the well-formed one
    default_starts, \* history: no invocation so far used --start-from
    first_start,    \* history: the URL every crawl so far started at, None when
                    \* there was no crawl yet or two crawls started differently
    same_start,     \* history: all crawls so far started at the same URL
    sleeps,         \* history: time.sleep(self.delay) calls of this invocation
    saved_log,      \* the count in the last "Saved N new articles" line of this
                    \* invocation, or None
    commits,        \* history: batches of this invocation whose commit succeeded
    visited,        \* history: the URLs this invocation has fetched
    cyclic          \* history: this invocation followed a next-page link to a
                    \* URL it had fetched before

vars == <<db, pc, run, max_pages, current_url, pages_scraped, total_articles, soup,
          articles, stop_log, outcome, printed, planned, fetches, committed, write_failed,
          all_full, faithful, default_starts, first_start, same_start, sleeps,
          saved_log, commits, visited, cyclic>>

\* the start URLs of the crawls so far
starts == <<first_start, same_start>>

\* what an invocation has done besides fetching
progress == <<sleeps, saved_log, commits>>

\* the chain of next-page links an invocation has followed
trail == <<visited, cyclic>>

store == <<db, committed>>
locals == <<max_pages, current_url, pages_scraped, total_articles, soup, articles>>

MaxPagesLog == "Reached maximum page limit"
FetchFailedLog == "Failed to fetch page, stopping scraping"
NoArticlesLog == "No articles found on this page, stopping"
CompletedLog == "No more pages found, scraping completed"


\* scrape_all_articles is not running: its parameters and locals are gone
Returned ==
    /\ max_pages' = None
    /\ current_url' = None
    /\ pages_scraped' = 0
    /\ total_articles' = 0
    /\ soup' = None
    /\ articles' = <<>>

\* no process is running: the invocation is over, and with it what it has
\* logged and done
Exited ==
    /\ pc' = "idle"
    /\ Returned
    /\ stop_log' = ""
    /\ fetches' = 0
    /\ write_failed' = FALSE
    /\ all_full' = TRUE
    /\ sleeps' = 0
    /\ saved_log' = None
    /\ commits' = 0
    /\ visited' = {}
    /\ cyclic' = FALSE

\* a fresh database, created by _setup_database, and no process running
Init ==
    /\ db = <<>>
    /\ pc = "idle"
    /\ run = 0
    /\ max_pages = None
    /\ current_url = None
    /\ pages_scraped = 0
    /\ total_articles = 0
    /\ soup = None
    /\ articles = <<>>
    /\ stop_log = ""
    /\ outcome = "none"
    /\ printed = 0
    /\ planned = None
    /\ fetches = 0
    /\ committed = {}
    /\ write_failed = FALSE
    /\ all_full = TRUE
    /\ faithful = TRUE
    /\ default_starts = TRUE
    /\ first_start = None
    /\ same_start = TRUE
    /\ sleeps = 0
    /\ saved_log = None
    /\ commits = 0
    /\ visited = {}
    /\ cyclic = FALSE

(* ------------------------------ the actions ----------------------------- *)

\* main up to the call of scrape_all_articles, and that call's first lines;
\* main ends here when the set-up fails or is interrupted, when the prompt is
\* answered with something else than "y" and "n", and when input() raises
Main(a, setup, countOk, titleOk, response) ==
    LET plan == main_plan(a, db, countOk, titleOk, response)
        ending == IF setup = "error" THEN "error"
                  ELSE IF setup = "interrupt" THEN "interrupted"
                  ELSE IF plan.cancelled THEN "cancelled"
                  ELSE IF plan.response = "KeyboardInterrupt" THEN "interrupted"
                  ELSE IF plan.response = "EOFError" THEN "error"
                  ELSE "running"
    IN  /\ pc = "idle"
        /\ run < MaxRuns
        /\ run' = run + 1
        /\ planned' = IF setup = "ok" THEN Some(plan) ELSE None
        /\ default_starts' = (default_starts /\ ~Truthy(a.start_from))
        /\ printed' = 0
        /\ outcome' = ending
        /\ IF ending # "running"
           THEN /\ Exited
                /\ UNCHANGED starts
           ELSE /\ pc' = "loop"
                /\ max_pages' = a.max_pages
                /\ current_url' = IF plan.start_url = None THEN Some(DefaultStartUrl)
                                  ELSE plan.start_url
                /\ same_start' = (same_start /\ first_start \in {None, current_url'})
                /\ first_start' = IF same_start' THEN current_url' ELSE None
                /\ UNCHANGED <<pages_scraped, total_articles, soup, articles,
                               stop_log, fetches, write_failed, all_full, progress,
                               trail>>
        /\ UNCHANGED <<store, faithful>>

BudgetReached_Never(limit, scraped) == FALSE

BudgetReached_Gt(limit, scraped) == limit # None /\ limit[1] # 0 /\ scraped > limit[1]

\* "if max_pages and pages_scraped >= max_pages"
BudgetReached(limit, scraped) == limit # None /\ limit[1] # 0 /\ scraped >= limit[1]

\* the loop is left at its top because the page budget is used up
BudgetStop ==
    /\ pc = "loop"
    /\ BudgetReached(max_pages, pages_scraped)
    /\ stop_log' = MaxPagesLog
    /\ pc' = "finish"
    /\ planned' = None
    /\ UNCHANGED <<store, run, locals, outcome, printed, fetches, write_failed, all_full,
                   faithful, default_starts, starts, progress, trail>>

FetchFail_Counted ==
    /\ pc = "loop"
    /\ ~BudgetReached(max_pages, pages_scraped)
    /\ fetches < MaxFetches
    /\ fetches' = fetches + 1
    /\ soup' = None
    /\ stop_log' = FetchFailedLog
    /\ pc' = "finish"
    /\ planned' = None
    /\ pages_scraped' = pages_scraped + 1
    /\ UNCHANGED <<store, run, max_pages, current_url, total_articles,
                   articles, outcome, printed, write_failed, all_full, faithful, default_starts, starts, progress, trail>>

\* _get_page returns None: the request failed
FetchFail ==
    /\ pc = "loop"
    /\ ~BudgetReached(max_pages, pages_scraped)
    /\ fetches < MaxFetches
    /\ fetches' = fetches + 1
    /\ soup' = None
    /\ stop_log' = FetchFailedLog
    /\ pc' = "finish"
    /\ planned' = None
    /\ UNCHANGED <<store, run, max_pages, current_url, pages_scraped, total_articles,
                   articles, outcome, printed, write_failed, all_full, faithful, default_starts, starts, progress, trail>>

FetchOk_NoSleep(variant) ==
    /\ pc = "loop"
    /\ ~BudgetReached(max_pages, pages_scraped)
    /\ fetches < MaxFetches
    /\ fetches' = fetches + 1
    /\ soup' = Some(ServedPage(current_url[1], variant))
    /\ faithful' = (faithful /\ soup'[1] = FaithfulPage(current_url[1]))
    /\ all_full' = (/\ all_full
                    /\ _extract_articles_from_page(soup'[1]) # <<>>
                    /\ _find_next_page_url(soup'[1]) # None)
    /\ sleeps' = sleeps
    /\ visited' = visited \cup {current_url[1]}
    /\ pc' = "extract"
    /\ planned' = None
    /\ UNCHANGED <<store, run, max_pages, current_url, pages_scraped, total_articles,
                   articles, stop_log, outcome, printed, write_failed, default_starts, starts,
                   saved_log, commits, cyclic>>

\* _get_page returns the parsed page, after sleeping for the delay
FetchOk(variant) ==
    /\ pc = "loop"
    /\ ~BudgetReached(max_pages, pages_scraped)
    /\ fetches < MaxFetches
    /\ fetches' = fetches + 1
    /\ soup' = Some(ServedPage(current_url[1], variant))
    /\ faithful' = (faithful /\ soup'[1] = FaithfulPage(current_url[1]))
    /\ all_full' = (/\ all_full
                    /\ _extract_articles_from_page(soup'[1]) # <<>>
                    /\ _find_next_page_url(soup'[1]) # None)
    /\ sleeps' = sleeps + 1
    /\ visited' = visited \cup {current_url[1]}
    /\ pc' = "extract"
    /\ planned' = None
    /\ UNCHANGED <<store, run, max_pages, current_url, pages_scraped, total_articles,
                   articles, stop_log, outcome, printed, write_failed, default_starts, starts,
                   saved_log, commits, cyclic>>

Extract_NoEmptyStop ==
    /\ pc = "extract"
    /\ articles' = _extract_articles_from_page(soup[1])
    /\ pc' = "save"
    /\ UNCHANGED <<store, run, max_pages, current_url, pages_scraped, total_articles,
                   soup, stop_log, outcome, printed, planned, fetches, write_failed, all_full,
                   faithful, default_starts, starts, progress, trail>>

Extract_StopOnlyWithNext ==
    /\ pc = "extract"
    /\ articles' = _extract_articles_from_page(soup[1])
    /\ IF articles' = <<>> /\ _find_next_page_url(soup[1]) # None
       THEN stop_log' = NoArticlesLog /\ pc' = "finish"
       ELSE stop_log' = stop_log /\ pc' = "save"
    /\ UNCHANGED <<store, run, max_pages, current_url, pages_scraped, total_articles,
                   soup, outcome, printed, planned, fetches, write_failed, all_full,
                   faithful, default_starts, starts, progress, trail>>

\* the titles of the page are extracted; an empty list leaves the loop
Extract ==
    /\ pc = "extract"
    /\ articles' = _extract_articles_from_page(soup[1])
    /\ IF articles' = <<>>
       THEN stop_log' = NoArticlesLog /\ pc' = "finish"
       ELSE stop_log' = stop_log /\ pc' = "save"
    /\ UNCHANGED <<store, run, max_pages, current_url, pages_scraped, total_articles,
                   soup, outcome, printed, planned, fetches, write_failed, all_full,
                   faithful, default_starts, starts, progress, trail>>

rowcount_Len(rows, titles) == Len(titles)

RECURSIVE rowcount(_, _)
\* cursor.rowcount after executemany of INSERT OR IGNORE: the rows changed by
\* each statement, summed up; an ignored insert changes none
rowcount(rows, titles) ==
    IF titles = <<>> THEN 0
    ELSE (IF Head(titles) \in Range(rows) THEN 0 ELSE 1)
         + rowcount(InsertOrIgnore(rows, <<Head(titles)>>), Tail(titles))

_save_articles_to_db_Plain(rows, titles, writeOk) ==
    IF writeOk THEN InsertAll(rows, titles) ELSE rows

_save_articles_to_db_Overwrite(rows, titles, writeOk) ==
    IF titles = <<>> THEN rows
    ELSE IF writeOk THEN InsertOrIgnore(<<>>, titles)
    ELSE rows

\* WikipediaScraper._save_articles_to_db: the rows after the call; a
\* sqlite3.Error is logged and swallowed, the transaction is not committed
_save_articles_to_db(rows, titles, writeOk) ==
    IF titles = <<>> THEN rows
    ELSE IF writeOk THEN InsertOrIgnore(rows, titles)
    ELSE rows

\* the page's batch is handed to the store and the counters advance
Save(writeOk) ==
    /\ pc = "save"
    /\ db' = _save_articles_to_db(db, articles, writeOk)
    /\ committed' = IF writeOk THEN committed \cup Range(articles) ELSE committed
    /\ write_failed' = (write_failed \/ ~writeOk)
    /\ saved_log' = IF writeOk THEN Some(rowcount(db, articles)) ELSE None
    /\ commits' = IF writeOk THEN commits + 1 ELSE commits
    /\ pages_scraped' = pages_scraped + 1
    /\ total_articles' = total_articles + Len(articles)
    /\ pc' = "findnext"
    /\ UNCHANGED <<run, max_pages, current_url, soup, articles, stop_log, outcome, printed,
                   planned, fetches, all_full, faithful, default_starts, starts, sleeps, trail>>

\* the next page's URL is looked up; without one the loop is left
FindNext ==
    /\ pc = "findnext"
    /\ current_url' = _find_next_page_url(soup[1])
    /\ IF current_url' = None
       THEN stop_log' = CompletedLog /\ pc' = "finish"
       ELSE stop_log' = stop_log /\ pc' = "loop"
    /\ cyclic' = (cyclic \/ (current_url' # None /\ current_url'[1] \in visited))
    /\ UNCHANGED <<store, run, max_pages, pages_scraped, total_articles, soup,
                   articles, outcome, printed, planned, fetches, write_failed, all_full,
                   faithful, default_starts, starts, progress, visited>>

\* after the loop: the totals are logged, scrape_all_articles returns and main
\* reads the final count
Finish ==
    /\ pc = "finish"
    /\ pc' = "summary"
    /\ Returned
    /\ UNCHANGED <<store, run, stop_log, outcome, printed, planned, fetches,
                   write_failed, all_full, faithful, default_starts, starts, progress,
                   trail>>

\* main prints the next line of the summary
PrintSummary ==
    /\ pc = "summary"
    /\ printed < SummaryLines
    /\ printed' = printed + 1
    /\ UNCHANGED <<store, run, pc, locals, stop_log, outcome, planned, fetches,
                   write_failed, all_full, faithful, default_starts, starts, progress,
                   trail>>

\* the summary is out: main leaves its try block and returns
Return ==
    /\ pc = "summary"
    /\ printed = SummaryLines
    /\ outcome' = "summary"
    /\ Exited
    /\ UNCHANGED <<store, run, printed, planned, faithful, default_starts, starts>>

\* Ctrl+C during the crawl or the summary: KeyboardInterrupt is caught in main
\* and logged; main returns
Interrupt ==
    /\ pc \in {"loop", "extract", "save", "findnext", "finish", "summary"}
    /\ outcome' = "interrupted"
    /\ planned' = None
    /\ Exited
    /\ UNCHANGED <<store, run, printed, faithful, default_starts, starts>>

Next ==
    \/ \E a \in ArgSets, countOk \in BOOLEAN, titleOk \in BOOLEAN, line \in Answers :
          Main(a, "ok", countOk, titleOk, Response(line))
    \/ \E a \in ArgSets, countOk \in BOOLEAN, titleOk \in BOOLEAN, raised \in PromptRaises :
          Main(a, "ok", countOk, titleOk, raised)
    \/ \E a \in ArgSets, setup \in SetupOutcomes \ {"ok"} :
          Main(a, setup, TRUE, TRUE, "n")
    \/ BudgetStop
    \/ FetchFail
    \/ \E variant \in PageVariants : FetchOk(variant)
    \/ Extract
    \/ \E writeOk \in BOOLEAN : Save(writeOk)
    \/ FindNext
    \/ Finish
    \/ PrintSummary
    \/ Return
    \/ Interrupt

Spec == Init /\ [][Next]_vars

\* the steps of a running invocation: the interpreter goes on to the next
\* statement, and session.get returns (timeout=30) with a page or an error
Step ==
    \/ BudgetStop
    \/ FetchFail
    \/ \E variant \in PageVariants : FetchOk(variant)
    \/ Extract
    \/ \E writeOk \in BOOLEAN : Save(writeOk)
    \/ FindNext
    \/ Finish
    \/ PrintSummary
    \/ Return

\* the same behaviours, with a running invocation never halting by itself
FairSpec == Spec /\ WF_vars(Step)

\* the first page of a first invocation on a fresh database has just been
\* committed; the page is any of LinkPages
InitLinkPage ==
    /\ soup \in {Some(p) : p \in LinkPages}
    /\ articles = _extract_articles_from_page(soup[1])
    /\ db = _save_articles_to_db(<<>>, articles, TRUE)
    /\ committed = Range(articles)
    /\ pc = "findnext"
    /\ run = 1
    /\ max_pages = None
    /\ current_url = Some(DefaultStartUrl)
    /\ pages_scraped = 1
    /\ total_articles = Len(articles)
    /\ stop_log = ""
    /\ outcome = "running"
    /\ printed = 0
    /\ planned = None
    /\ fetches = 1
    /\ write_failed = FALSE
    /\ all_full = (_find_next_page_url(soup[1]) # None)
    /\ faithful = (soup[1] = FaithfulPage(DefaultStartUrl))
    /\ default_starts = TRUE
    /\ first_start = Some(DefaultStartUrl)
    /\ same_start = TRUE
    /\ sleeps = 1
    /\ saved_log = Some(rowcount(<<>>, articles))
    /\ commits = 1
    /\ visited = {DefaultStartUrl}
    /\ cyclic = FALSE

\* _find_next_page_url applied to every page of LinkPages
SpecNextPage == InitLinkPage /\ [][FindNext]_vars

(* ------------------------------- the claims ----------------------------- *)

\* the page of the current iteration, as the translator sees it
PageItems == _extract_articles_from_page(soup[1])
PageNextUrl == _find_next_page_url(soup[1])

\* C1 (dedup): whatever batches were committed, in this and in earlier
\* invocations, the store holds every committed title exactly once: its row
\* count is the number of distinct committed titles and no title is in two rows
C1_Dedup ==
    /\ Len(db) = Cardinality(committed)
    /\ Range(db) = committed
    /\ \A i, j \in 1..Len(db) : db[i] = db[j] => i = j

\* two batches were committed by this invocation, the last one lists a title
\* twice and repeats the titles already stored
C1_Witness ==
    /\ pc = "findnext"
    /\ pages_scraped = 2
    /\ ~write_failed
    /\ Len(articles) > Cardinality(Range(articles))
    /\ Len(db) = Cardinality(Range(articles))

\* C2 (resume safety), as claimed: when an invocation reaches "No more pages
\* found" on a listing that was always served well-formed, and every
\* invocation started from the beginning or from the store's last title, the
\* store holds every title of the listing
C2_ResumeSafety ==
    (pc = "finish" /\ stop_log = CompletedLog /\ faithful /\ default_starts)
        => Range(Listing) \subseteq Range(db)

\* C3 (persistence failure is fatal), as claimed: once a commit of this
\* invocation has raised sqlite3.Error, the invocation fetches no further page
C3_WriteFailureStopsCrawl ==
    [][(write_failed /\ pc' # "idle") => fetches' = fetches]_vars

\* the lexicographically greatest title of a non-empty set
GreatestTitle(S) == CHOOSE t \in S : \A u \in S : u = t \/ LexLess(u, t)

\* C4 (explicit override precedence), as claimed: whenever --start-from is
\* given, whatever --resume and the store are, the start URL is the one built
\* from the given name
C4_ExplicitAlwaysWins ==
    (planned # None /\ planned[1].args.start_from # None)
        => /\ ~planned[1].cancelled
           /\ planned[1].start_url = Some(ExplicitStartUrl(planned[1].args.start_from[1]))

\* C4, amended: whenever a non-empty --start-from name is given, whatever
\* --resume and the store are, the run is not cancelled and the start URL is
\* the one built from the given name
C4_NonEmptyExplicitWins ==
    (planned # None /\ Truthy(planned[1].args.start_from))
        => /\ ~planned[1].cancelled
           /\ planned[1].start_url = Some(ExplicitStartUrl(planned[1].args.start_from[1]))

\* --start-from NAME together with --resume on a store whose last title would
\* give another URL
C4_Witness ==
    /\ planned # None
    /\ Truthy(planned[1].args.start_from)
    /\ planned[1].args.resume
    /\ planned[1].existing_count > 0
    /\ db # <<>>
    /\ planned[1].start_url # Some(create_resume_url(GreatestTitle(Range(db))))

\* C5 (resume monotonicity), as claimed: without --start-from, with --resume and
\* a non-empty store, the start URL is the resume URL of the greatest stored
\* title
C5_ResumeFromGreatest ==
    (planned # None /\ planned[1].args.start_from = None /\ planned[1].args.resume
       /\ db # <<>>)
        => planned[1].start_url = Some(create_resume_url(GreatestTitle(Range(db))))

\* C6 (fresh start), as claimed: without --start-from, when --resume is not set
\* or the store is empty, the start URL is absent and the run is never cancelled
C6_FreshStartNeverCancels ==
    (planned # None /\ planned[1].args.start_from = None
       /\ (~planned[1].args.resume \/ db = <<>>))
        => /\ planned[1].start_url = None
           /\ ~planned[1].cancelled

\* the operator was asked whether to continue
Prompted(p) == ~Truthy(p.args.start_from) /\ ~p.args.resume /\ p.existing_count > 0

\* C6, amended: without a (non-empty) --start-from, the start URL is absent
\* and the crawl starts at the listing's first page when the store is empty
\* and when the operator, asked whether to continue, answers "n" (in either
\* case); the operator is asked only when --resume is not set and the store has
\* rows; the run is cancelled exactly when the operator is asked and the
\* answer, lower-cased, is neither "y" nor "n"; when input() raises instead of
\* answering (Ctrl+C, end of input) no start URL is chosen and no crawl starts
C6_FreshStartOrPrompt ==
    (planned # None /\ ~Truthy(planned[1].args.start_from))
        => LET p == planned[1]
           IN  /\ (db = <<>> \/ (Prompted(p) /\ p.response = "n"))
                    => /\ p.start_url = None
                       /\ ~p.cancelled
                       /\ pc = "loop"
                       /\ current_url = Some(DefaultStartUrl)
               /\ Prompted(p) => (~p.args.resume /\ db # <<>>)
               /\ (p.response # "") <=> Prompted(p)
               /\ p.cancelled <=> (Prompted(p) /\ p.response \notin {"y", "n"} \cup PromptRaises)
               /\ p.cancelled => (pc = "idle" /\ outcome = "cancelled")
               /\ (Prompted(p) /\ p.response \in PromptRaises)
                    => /\ p.start_url = None
                       /\ pc = "idle"
                       /\ outcome = IF p.response = "EOFError" THEN "error"
                                    ELSE "interrupted"

\* no flags, a non-empty store, the prompt answered "n": the crawl starts at
\* the default URL
C6_Witness ==
    /\ planned # None
    /\ planned[1].args.start_from = None
    /\ ~planned[1].args.resume
    /\ planned[1].existing_count > 0
    /\ planned[1].response = "n"
    /\ pc = "loop"
    /\ current_url = Some(DefaultStartUrl)

\* C7 (page budget): with --max-pages N, N > 0, an invocation never calls
\* session.get more than N times; and when every page it fetched had titles
\* and a next-page link and no fetch failed, it leaves the loop with the page
\* limit message after exactly N fetches, and the page count it logs is N
C7_PageBudget ==
    (max_pages # None /\ max_pages[1] > 0)
        => /\ fetches <= max_pages[1]
           /\ (pc = "finish" /\ all_full /\ stop_log # FetchFailedLog)
                => /\ stop_log = MaxPagesLog
                   /\ fetches = max_pages[1]
                   /\ pages_scraped = max_pages[1]

\* --max-pages 2 on pages that all have titles and a next link: stopped by the
\* budget after two fetches
C7_Witness ==
    /\ pc = "finish"
    /\ max_pages = Some(2)
    /\ all_full
    /\ stop_log = MaxPagesLog
    /\ fetches = 2
    /\ pages_scraped = 2

\* the page at hand yields no title although it has a next-page link
AnomalyPage == soup # None /\ PageItems = <<>> /\ PageNextUrl # None

\* C8 (anomaly detection): a page with a next-page link and no titles ends the
\* loop in its own iteration: the driver is never found committing it, looking up
\* its next link or back at the top of the loop with it, so the advertised next
\* page is not fetched
C8_AnomalyStops ==
    AnomalyPage => /\ pc \in {"extract", "finish"}
                   /\ (pc = "finish" => stop_log = NoArticlesLog)

\* the loop was left on a page without titles that does have a next-page link
C8_Witness ==
    /\ AnomalyPage
    /\ pc = "finish"
    /\ stop_log = NoArticlesLog
    /\ fetches = 2

\* C9 (stop-cause classification), as claimed: the no-articles stop is logged
\* exactly for a page without titles that has a next link, and the completed
\* stop exactly for a page without a next link
C9_CauseByNextLink ==
    (pc = "finish" /\ soup # None)
        => /\ stop_log = NoArticlesLog <=> (PageItems = <<>> /\ PageNextUrl # None)
           /\ stop_log = CompletedLog <=> PageNextUrl = None

\* C9, amended: the no-articles stop is logged exactly for a page without
\* titles, whether or not it has a next link, and the completed stop exactly
\* for a page with titles and without a next link; a page with neither titles
\* nor next link gets the no-articles stop
C9_CauseByTitlesFirst ==
    (pc = "finish" /\ soup # None)
        => /\ stop_log = NoArticlesLog <=> PageItems = <<>>
           /\ stop_log = CompletedLog <=> (PageItems # <<>> /\ PageNextUrl = None)

\* the loop was left on a page with neither titles nor next link
C9_Witness ==
    /\ pc = "finish"
    /\ soup # None
    /\ PageItems = <<>>
    /\ PageNextUrl = None
    /\ stop_log = NoArticlesLog

\* C10 (termination on absent next cursor), as claimed: when the page at hand
\* has titles and no next-page link, the loop is left with the completed
\* message and the page's titles are in the store
C10_CommitThenNaturalEnd ==
    (pc = "finish" /\ soup # None /\ PageItems # <<>> /\ PageNextUrl = None)
        => /\ stop_log = CompletedLog
           /\ Range(PageItems) \subseteq Range(db)

\* all the summary lines main prints after scrape_all_articles has returned are
\* out
SummaryPrinted == printed = SummaryLines

\* the step in which _get_page returned None
FetchFailStep == pc = "loop" /\ pc' = "finish" /\ stop_log' = FetchFailedLog

\* C11 (fetch failure): the step in which a fetch fails logs the error and
\* leaves the loop with the store, the committed titles, the page counter and
\* the title counter exactly as they were before the fetch; and the process,
\* having left the loop that way, goes on to the summary and ends with all of
\* its lines printed over that unchanged store (unless the user interrupts it
\* first, see C13)
C11_FetchFailureFrame ==
    [][/\ FetchFailStep
          => /\ db' = db
             /\ committed' = committed
             /\ pages_scraped' = pages_scraped
             /\ total_articles' = total_articles
       /\ (pc = "finish" /\ stop_log = FetchFailedLog /\ outcome' # "interrupted")
          => /\ pc' = "summary"
             /\ db' = db
       /\ (pc = "summary" /\ outcome' # "interrupted")
          => /\ db' = db
             /\ pc' = "idle" => (SummaryPrinted' /\ outcome' = "summary")]_vars

\* the second fetch of an invocation failed after the first page was committed
C11_Witness ==
    /\ pc = "finish"
    /\ stop_log = FetchFailedLog
    /\ fetches = 2
    /\ pages_scraped = 1
    /\ ~write_failed
    /\ db # <<>>

RECURSIVE UninterruptedRun(_, _)
\* the rows after scrape_all_articles has run from url to the listing's end on
\* well-formed pages, with no fault, no budget and no interrupt
UninterruptedRun(rows, url) ==
    LET page   == FaithfulPage(url)
        titles == _extract_articles_from_page(page)
        nxt    == _find_next_page_url(page)
    IN  IF titles = <<>> THEN rows
        ELSE IF nxt = None THEN _save_articles_to_db(rows, titles, TRUE)
        ELSE UninterruptedRun(_save_articles_to_db(rows, titles, TRUE), nxt[1])

\* C12 (rerun idempotence), as claimed: when every invocation so far started
\* at the same URL and was served the well-formed pages, and the second or a
\* later one of them reaches "No more pages found", the store has no title
\* twice and its rows are those an uninterrupted run from that URL on the
\* empty store leaves
C12_RerunIdempotent ==
    (pc = "finish" /\ stop_log = CompletedLog /\ faithful /\ same_start /\ run >= 2)
        => /\ \A i, j \in 1..Len(db) : db[i] = db[j] => i = j
           /\ db = UninterruptedRun(<<>>, first_start[1])

\* the exit status of the last invocation: main returns normally after the
\* summary, after "Scraping interrupted by user" and after "Scraping cancelled";
\* any other exception is logged and raised again
ExitCode ==
    IF outcome \in {"summary", "interrupted", "cancelled"} THEN Some(0)
    ELSE IF outcome = "error" THEN Some(1)
    ELSE None

\* C13 (interrupt), as claimed: a KeyboardInterrupt at any point of a crawl
\* ends the process with the store as it was, the summary printed and exit
\* code 0
C13_InterruptPrintsSummary ==
    [][Interrupt => /\ db' = db
                    /\ committed' = committed
                    /\ SummaryPrinted'
                    /\ ExitCode' = Some(0)]_vars

\* C14 (pacing): whenever an invocation issues a fetch, each fetch it issued
\* before was followed by time.sleep(self.delay): a fetch that succeeded is
\* never followed by another fetch without the delay in between (the delay is
\* taken before the fetched page is handed back), and a fetch that failed is
\* not followed by a fetch at all
C14_Pacing ==
    [][fetches' = fetches + 1 => /\ sleeps = fetches
                                 /\ soup' # None => sleeps' = fetches']_vars

\* a third fetch was issued, after two fetches that were each followed by the
\* delay
C14_Witness ==
    /\ fetches = 3
    /\ sleeps >= 2
    /\ pc \in {"extract", "finish"}

\* C15 (store monotonicity): no step of any invocation (planner reads,
\* fetches, failed fetches, commits, failed commits, stops, interrupts)
\* removes or changes a stored row: the set of stored titles only grows and
\* every row keeps its place and its title
C15_StoreMonotone ==
    [][/\ Range(db) \subseteq Range(db')
       /\ Len(db) <= Len(db')
       /\ \A i \in 1..Len(db) : db'[i] = db[i]]_vars

\* a later invocation has just committed a batch that added rows to a store
\* that already had some
C15_Witness ==
    /\ pc = "findnext"
    /\ run >= 2
    /\ commits >= 1
    /\ saved_log # None
    /\ saved_log[1] >= 1
    /\ Len(db) > saved_log[1]

\* the step in which a batch is committed
CommitStep == pc = "save" /\ commits' = commits + 1

\* C16 (inserted count): whenever a batch is committed, whatever the store
\* holds, the count in the "Saved N new articles" line is the number of
\* distinct titles of the batch that were not stored before, and the store's
\* row count grows by exactly that number
C16_InsertedCount ==
    [][CommitStep
         => /\ saved_log' = Some(Cardinality(Range(articles) \ Range(db)))
            /\ get_total_articles_count(db', TRUE)
                  = get_total_articles_count(db, TRUE) + saved_log'[1]]_vars

\* a batch of two titles, one of them stored before, was committed and
\* reported as 1 new
C16_Witness ==
    /\ pc = "findnext"
    /\ saved_log = Some(1)
    /\ Cardinality(Range(articles)) = 2
    /\ commits >= 1
    /\ Len(db) >= 3

\* the links labelled "next", and among them those with a listing URL
LabelledNext(page) == page.textNext
ListingNext(page) ==
    SelectSeq(page.textNext, LAMBDA l : l.href # None /\ l.href[1].page = "Special:AllPages")

\* the links of the navigation region with "next" in their text, and among
\* them those with an href
NavNext(page) ==
    IF page.nav = None THEN <<>> ELSE SelectSeq(page.nav[1], LAMBDA l : l.next)
NavNextWithHref(page) == SelectSeq(NavNext(page), LAMBDA l : l.href # None)

\* the next URL chosen between the first link of t and the first link of n:
\* t's when both exist, absent when neither does, else the one that exists
Precedence(t, n) ==
    IF t # <<>> THEN t[1].href ELSE IF n # <<>> THEN n[1].href ELSE None

\* C17 (next-page detection), as claimed: the next URL is the target of the
\* first link labelled "next" when such a link exists, with or without a
\* continuation link in the navigation region; the target of the navigation
\* region's continuation link when only that exists; absent when neither does
C17_LabelledLinkFirst ==
    [][(pc = "findnext" /\ pc' # "idle")
         => current_url' = Precedence(LabelledNext(soup[1]), NavNext(soup[1]))]_vars

\* C17, amended: a link labelled "next" counts only when its href is a listing
\* URL (contains Special:AllPages), and a continuation link of the navigation
\* region only when it has an href; among the links that count, the first
\* labelled one takes precedence over the navigation region's, the one that
\* exists is taken when only one does, and the next URL is absent when neither
\* does
C17_ListingLinkFirst ==
    [][(pc = "findnext" /\ pc' # "idle")
         => current_url' = Precedence(ListingNext(soup[1]), NavNextWithHref(soup[1]))]_vars

\* the page's first "next"-labelled link is not a listing link, its second is,
\* and the navigation region continues somewhere else: the second labelled
\* link's target was taken
C17_Witness ==
    /\ pc = "loop"
    /\ soup # None
    /\ Len(LabelledNext(soup[1])) = 2
    /\ soup[1].textNext[1].href = Some(OtherUrl)
    /\ NavNextWithHref(soup[1]) # <<>>
    /\ NavNextWithHref(soup[1])[1].href # soup[1].textNext[2].href
    /\ current_url = soup[1].textNext[2].href

\* C18 (cursor-to-URL mapping), as claimed: the start URL built from a
\* --start-from name is the URL auto-resume builds from that name as the
\* store's last title, and it is the listing endpoint with the encoded name
\* as its parameter: the service reads that very name back from it
C18_SameUrlBothPaths ==
    (planned # None /\ Truthy(planned[1].args.start_from))
        => LET name == planned[1].args.start_from[1]
           IN  /\ planned[1].start_url = Some(create_resume_url(name))
               /\ ServerFrom(planned[1].start_url[1]) = name

\* C19 (zero budget), as claimed: with --max-pages N, for every N >= 0, an
\* invocation never calls session.get more than N times; with N = 0 it fetches
\* no page and hands no batch to the store
C19_BudgetBoundsFetches ==
    max_pages # None
        => /\ fetches <= max_pages[1]
           /\ max_pages[1] = 0 => (pages_scraped = 0 /\ commits = 0)

\* C20 (commit-before-continue ordering), as claimed: whenever an invocation
\* issues a fetch, every page it fetched before has been handed to
\* _save_articles_to_db; and at every point, of the pages it has fetched at
\* most one (the page in progress) is not committed to the store
C20_CommitBeforeContinue ==
    [][/\ fetches' = fetches + 1 => pages_scraped = fetches
       /\ sleeps' - commits' <= 1]_vars

\* the loop is running with no positive page budget, and the chain of
\* next-page links has led back to a page already fetched
UnboundedCrawl ==
    /\ pc \in {"loop", "extract", "save", "findnext"}
    /\ cyclic
    /\ ~(max_pages # None /\ max_pages[1] > 0)

\* C21 (termination): every running invocation eventually ends, with the
\* summary printed (or, when the user interrupts it, with the interrupt
\* logged, see C13), as long as every fetch returns and either --max-pages is
\* a positive number or the next-page links never lead back to a page already
\* fetched
C21_Termination ==
    (pc # "idle")
        ~> \/ pc = "idle" /\ outcome \in {"summary", "interrupted"}
           \/ UnboundedCrawl

\* a chain of next-page links that leads back to the page itself was cut by
\* --max-pages 2
C21_Witness ==
    /\ pc = "finish"
    /\ cyclic
    /\ max_pages = Some(MaxPagesArg)
    /\ stop_log = MaxPagesLog
    /\ fetches = MaxPagesArg

====
